---- MODULE Spec2Model ----
(***************************************************************************)
(* Model of the zap-logger-wrapper facade (package logger): construction   *)
(* through functional options, the leveled log calls with trace-id         *)
(* injection, and child derivation through With.  The zap engine is        *)
(* modelled by what the facade's calls make it do: Build opens the output  *)
(* paths, a production-config core filters by level and samples, and an    *)
(* admitted entry is written to every output path.  The earlier version   *)
(* of the package (positional New; same Info, Error, Debug and With) is    *)
(* covered by the same log-call and With definitions.                      *)
(***************************************************************************)
EXTENDS Integers, Sequences, FiniteSets, TLC

VARIABLES
    loggers,    \* the *Logger values that exist, in creation order
    origin,     \* history: how each Logger came to be (New, or With on a parent)
    counts,     \* per built engine: the sampler's counters, shared by its children
    sinks,      \* per output path: number of entries written to it
    now,        \* the clock, in sampler ticks
    calls,      \* number of Info/Error/Debug calls and Option calls made so far
    last,       \* what the last operation was given, returned and did
    heap,       \* the backing arrays of the []interface{} slices log calls are given
    gor         \* per goroutine: the log call it is in, its position and its locals

vars == <<loggers, origin, counts, sinks, now, calls, last, heap, gor>>

-----------------------------------------------------------------------------
(* Bounds of the exploration *)

MaxLoggers == 3
MaxOpts == 2
MaxCalls == 2
MaxTime == 1
MaxBurst == 102
MaxGoroutines == 2
MaxSliceCalls == 2

-----------------------------------------------------------------------------
(* Values *)

\* zapcore.Level values used by the facade
DebugLevel == -1
InfoLevel == 0
ErrorLevel == 2
Levels == {DebugLevel, InfoLevel, ErrorLevel}

\* GetTraceIDFn values: the nil function, New's defaultTraceIDFn, and a
\* caller-supplied function that reads the trace id carried by the context
NilFn == "nil"
defaultTraceIDFn == "defaultTraceIDFn"
FromCtxFn == "fromCtx"
UserFns == {NilFn, FromCtxFn}

\* a context is represented by the trace id it carries ("" = none)
Ctxs == {"", "abc123"}

Services == {"svc"}
Msgs == {"hello"}

\* the messages of a burst: two messages that fall into one sampler counter
BurstMsgs == {"hello", "oux"}

\* output paths; nil and the empty slice are both <<>> (the code never tells them apart)
defaultOutputPaths == <<"stdout">>
Sinks == {"stdout", "test://whatever"}
PathLists == {<<>>, <<"test://whatever">>, <<"nosuch://x">>}

\* caller-supplied key-value lists (flat, as the variadic keyVals)
KeyValLists == {<<>>, <<"k", "v">>}

\* key-value lists given to With
WithLists == {<<"k", "v">>, <<"component", "x">>}

Nil == [nil |-> TRUE]
NoErr == "nil"

-----------------------------------------------------------------------------
(* Options *)

WithTraceID(getTraceIDFn) == [opt |-> "WithTraceID", getTraceIDFn |-> getTraceIDFn]

WithLevel(level) == [opt |-> "WithLevel", level |-> level]

WithOutputPaths(outputPaths) == [opt |-> "WithOutputPaths", outputPaths |-> outputPaths]

Options ==
    {WithTraceID(f) : f \in UserFns} \cup {WithLevel(x) : x \in Levels}
        \cup {WithOutputPaths(p) : p \in PathLists}

\* calling an Option on a *Logger: the closure's single assignment
CallOption(opt, l) ==
    CASE opt.opt = "WithTraceID" -> [l EXCEPT !.getTraceIDFn = opt.getTraceIDFn]
      [] opt.opt = "WithLevel" -> [l EXCEPT !.level = opt.level]
      [] opt.opt = "WithOutputPaths" -> [l EXCEPT !.outputPaths = opt.outputPaths]

RECURSIVE ApplyOptionsFirstWins(_, _)
\* a variant that lets the first option setting a field win
ApplyOptionsFirstWins(opts, l) ==
    IF opts = <<>> THEN l
    ELSE CallOption(Head(opts), ApplyOptionsFirstWins(Tail(opts), l))

RECURSIVE ApplyOptions(_, _)
\* for _, opt := range opts { opt(logger) }
ApplyOptions(opts, l) ==
    IF opts = <<>> THEN l
    ELSE ApplyOptions(Tail(opts), CallOption(Head(opts), l))

-----------------------------------------------------------------------------
(* The engine, as the facade configures and calls it *)

\* zap.NewProductionConfig(): sampling of 100 initial entries per tick, then every 100th
SamplerFirst == 100
SamplerThereafter == 100
SamplerTick == 1

NewProductionConfig ==
    [Level |-> InfoLevel, OutputPaths |-> <<"stderr">>, InitialFields |-> <<>>]

\* a path opens when it is a standard stream or has a registered sink
CanOpen(path) == path \in Sinks \cup {"stderr"}

\* config.Build: fails when an output path cannot be opened; otherwise a logger
\* with the config's level, paths and initial fields, on the core numbered `core`
Build(config, core) ==
    IF \E i \in DOMAIN config.OutputPaths : ~CanOpen(config.OutputPaths[i])
    THEN [logger |-> Nil, err |-> "open sink"]
    ELSE [logger |-> [core |-> core,
                      level |-> config.Level,
                      outputPaths |-> config.OutputPaths,
                      fields |-> config.InitialFields],
          err |-> NoErr]

\* the bytes of a message
Bytes(msg) ==
    CASE msg = "hello" -> <<104, 101, 108, 108, 111>>
      [] msg = "oux" -> <<111, 117, 120>>

RECURSIVE Xor(_, _)
\* a ^ b
Xor(a, b) ==
    IF a = 0 THEN b
    ELSE IF b = 0 THEN a
    ELSE (((a % 2) + (b % 2)) % 2) + 2 * Xor(a \div 2, b \div 2)

\* a uint32 as its two 16-bit halves
FnvOffset32 == [hi |-> 33052, lo |-> 40389]

\* hash ^= b; hash *= 16777619 (= 2^24 + 403), in uint32
FnvStep(h, b) ==
    LET x == ((h.lo \div 256) * 256) + Xor(h.lo % 256, b)
    IN  [hi |-> ((h.hi * 403) + ((x * 403) \div 65536) + ((x % 256) * 256)) % 65536,
         lo |-> (x * 403) % 65536]

RECURSIVE Fnv32aFrom(_, _)
Fnv32aFrom(h, bytes) ==
    IF bytes = <<>> THEN h ELSE Fnv32aFrom(FnvStep(h, Head(bytes)), Tail(bytes))

\* the sampler's hash of a message
Fnv32a(msg) == Fnv32aFrom(FnvOffset32, Bytes(msg))

\* the sampler keeps CountersPerLevel counters for each level, and counts a
\* message in the counter numbered by its hash
CountersPerLevel == 4096

\* the number of the counter of each message (computed once)
CounterIndex == [msg \in Msgs \cup BurstMsgs |-> Fnv32a(msg).lo % CountersPerLevel]

CounterOf(lvl, msg) == <<lvl, CounterIndex[msg]>>

\* the counters of a new sampler (those that the messages logged can reach)
NewCounters ==
    [k \in {CounterOf(lvl, msg) : lvl \in Levels, msg \in Msgs \cup BurstMsgs}
        |-> [n |-> 0, resetAt |-> 0]]

\* counter.IncCheckReset: the count is restarted once the counter's tick has passed
IncCheckReset(c, t) ==
    IF c.resetAt > t THEN [c EXCEPT !.n = @ + 1]
    ELSE [n |-> 1, resetAt |-> t + SamplerTick]

\* a variant that counts an entry in the sampler before filtering it by level
CheckCountsFirst(zl, cs, lvl, msg, t) ==
    LET c == IncCheckReset(cs[CounterOf(lvl, msg)], t)
    IN  [admit |-> lvl >= zl.level
                     /\ ~(c.n > SamplerFirst
                            /\ (c.n - SamplerFirst) % SamplerThereafter # 0),
         counts |-> [cs EXCEPT ![CounterOf(lvl, msg)] = c]]

\* the engine's check of one entry: the level filter (Logger.check asks
\* core.Enabled first), then the sampler of the production config, which
\* drops the entry once its counter has passed SamplerFirst in the tick,
\* except every SamplerThereafter-th
Check(zl, cs, lvl, msg, t) ==
    IF lvl < zl.level THEN [admit |-> FALSE, counts |-> cs]
    ELSE LET c == IncCheckReset(cs[CounterOf(lvl, msg)], t)
         IN  [admit |-> ~(c.n > SamplerFirst
                            /\ (c.n - SamplerFirst) % SamplerThereafter # 0),
              counts |-> [cs EXCEPT ![CounterOf(lvl, msg)] = c]]

\* the entry the core encodes: the logger's own fields, then the call's
Entry(zl, lvl, msg, keyVals) ==
    [level |-> lvl, msg |-> msg, fields |-> zl.fields \o keyVals]

\* SugaredLogger.With: a new logger on the same core with the fields appended
ZapWith(zl, keyVals) == [zl EXCEPT !.fields = @ \o keyVals]

Occurrences(paths, p) == Cardinality({i \in DOMAIN paths : paths[i] = p})

\* writing one entry to every output path of the logger
WriteAll(zl, s) == [p \in DOMAIN s |-> s[p] + Occurrences(zl.outputPaths, p)]

-----------------------------------------------------------------------------
(* New *)

\* a variant that returns the half-built Logger along with Build's error
NewResultKeepsLogger(service, opts, core) ==
    LET logger == ApplyOptions(opts,
                      [zapLogger |-> Build(NewProductionConfig, 0).logger,
                       getTraceIDFn |-> defaultTraceIDFn,
                       level |-> InfoLevel,
                       outputPaths |-> defaultOutputPaths])
        config == [Level |-> logger.level,
                   OutputPaths |-> logger.outputPaths,
                   InitialFields |-> <<"service", service>>]
        built == Build(config, core)
    IN  [logger |-> IF built.err # NoErr THEN logger
                    ELSE [logger EXCEPT !.zapLogger = built.logger],
         err |-> built.err, config |-> config]

\* what New computes: the returned pair, and the config handed to Build
NewResult(service, opts, core) ==
    LET first == Build(NewProductionConfig, 0)
    IN  IF first.err # NoErr
        THEN [logger |-> Nil, err |-> first.err, config |-> Nil]
        ELSE
          LET logger == ApplyOptions(opts,
                            [zapLogger |-> first.logger,
                             getTraceIDFn |-> defaultTraceIDFn,
                             level |-> InfoLevel,
                             outputPaths |-> defaultOutputPaths])
              config == [Level |-> logger.level,
                         OutputPaths |-> logger.outputPaths,
                         InitialFields |-> <<"service", service>>]
              built == Build(config, core)
          IN  IF built.err # NoErr
              THEN [logger |-> Nil, err |-> built.err, config |-> config]
              ELSE [logger |-> [logger EXCEPT !.zapLogger = built.logger],
                    err |-> NoErr, config |-> config]

Blank ==
    [op |-> "Init", logger |-> 0, service |-> "", opts |-> <<>>, err |-> NoErr,
     returned |-> Nil, result |-> 0, config |-> Nil, level |-> InfoLevel, ctx |-> "", msg |-> "",
     keyVals |-> <<>>, handed |-> <<>>, traced |-> <<>>, entry |-> Nil, paths |-> <<>>]

New(service, opts) ==
    LET r == NewResult(service, opts, Len(counts) + 1)
    IN  /\ IF r.logger # Nil
           THEN /\ loggers' = Append(loggers, r.logger)
                /\ origin' = Append(origin, [parent |-> 0, service |-> service,
                                             opts |-> opts, keyVals |-> <<>>,
                                             from |-> Nil])
                /\ counts' = Append(counts, NewCounters)
           ELSE UNCHANGED <<loggers, origin, counts>>
        /\ last' = [Blank EXCEPT !.op = "New", !.service = service, !.opts = opts,
                                 !.err = r.err, !.config = r.config,
                                 !.returned = r.logger,
                                 !.result = IF r.logger # Nil THEN Len(loggers) + 1 ELSE 0]
        /\ UNCHANGED <<sinks, now, calls, heap, gor>>

-----------------------------------------------------------------------------
(* Info, Error, Debug *)

\* the trace function applied to a context
CallTraceFn(fn, ctx) == IF fn = FromCtxFn THEN ctx ELSE ""

\* the contexts the trace function is invoked with by one log call
TraceCalls(l, ctx) == IF l.getTraceIDFn # NilFn THEN <<ctx>> ELSE <<>>

\* a variant that appends the pair whatever the trace function returns
WithTraceAlways(l, ctx, keyVals) ==
    IF l.getTraceIDFn # NilFn
    THEN keyVals \o <<"trace_id", CallTraceFn(l.getTraceIDFn, ctx)>>
    ELSE keyVals

\* keyVals after the trace-id block of a log call
WithTrace(l, ctx, keyVals) ==
    IF l.getTraceIDFn # NilFn
    THEN LET traceID == CallTraceFn(l.getTraceIDFn, ctx)
         IN  IF traceID # "" THEN keyVals \o <<"trace_id", traceID>> ELSE keyVals
    ELSE keyVals

\* zapLogger.Infow / Errorw / Debugw: check the entry, write it when admitted
Logw(op, i, lvl, ctx, msg, keyVals, handed) ==
    LET zl == loggers[i].zapLogger
        chk == Check(zl, counts[zl.core], lvl, msg, now)
    IN  /\ counts' = [counts EXCEPT ![zl.core] = chk.counts]
        /\ sinks' = IF chk.admit THEN WriteAll(zl, sinks) ELSE sinks
        /\ last' = [Blank EXCEPT !.op = op, !.logger = i, !.level = lvl, !.ctx = ctx,
                                 !.msg = msg, !.keyVals = keyVals, !.handed = handed,
                                 !.traced = TraceCalls(loggers[i], ctx),
                                 !.entry = IF chk.admit THEN Entry(zl, lvl, msg, handed)
                                           ELSE Nil,
                                 !.paths = IF chk.admit THEN zl.outputPaths ELSE <<>>]
        /\ calls' = calls + 1
        /\ UNCHANGED <<loggers, origin, now>>

\* Info, Error and Debug as one step each: a call whose fields are listed at
\* the call site, which the compiler passes in a fresh slice of exactly their length
Info(i, ctx, msg, keyVals) ==
    /\ Logw("Info", i, InfoLevel, ctx, msg, keyVals, WithTrace(loggers[i], ctx, keyVals))
    /\ UNCHANGED <<heap, gor>>

Error(i, ctx, msg, keyVals) ==
    /\ Logw("Error", i, ErrorLevel, ctx, msg, keyVals, WithTrace(loggers[i], ctx, keyVals))
    /\ UNCHANGED <<heap, gor>>

Debug(i, ctx, msg, keyVals) ==
    /\ Logw("Debug", i, DebugLevel, ctx, msg, keyVals, WithTrace(loggers[i], ctx, keyVals))
    /\ UNCHANGED <<heap, gor>>

-----------------------------------------------------------------------------
(* Info, Error, Debug given a caller's slice (l.Info(ctx, msg, kv...)), step by step *)

Goroutines == 1..MaxGoroutines

\* an element of a backing array that nothing was stored in
Unset == "<nil>"

\* the caller's slice: its fields, and the capacities it is made with
CallerFields == <<"k", "v">>
SliceCaps == {2, 3, 4}

\* the contexts of these calls: none, or one of two trace ids
SliceCtxs == {"", "abc123", "def456"}

\* make([]interface{}, len, cap) filled with the caller's fields
CallerArray(cap) ==
    [j \in 1..cap |-> IF j <= Len(CallerFields) THEN CallerFields[j] ELSE Unset]

\* a slice value: the backing array it points into, its length and capacity;
\* kv... passes the caller's slice value itself (the caller's array is heap[1])
CallerSlice == [array |-> 1, len |-> Len(CallerFields), cap |-> Len(heap[1])]

\* the elements of a slice, read from its backing array
Elems(h, s) == SubSeq(h[s.array], 1, s.len)

\* append(s, elems...): stores into the backing array of s when its capacity
\* suffices, and otherwise into a new array holding a copy of the elements of s
GoAppend(h, s, elems) ==
    LET need == s.len + Len(elems)
    IN  IF need <= s.cap
        THEN [heap |-> [h EXCEPT ![s.array] =
                           [j \in 1..s.cap |->
                               IF j > s.len /\ j <= need THEN elems[j - s.len] ELSE @[j]]],
              slice |-> [s EXCEPT !.len = need]]
        ELSE LET newcap == IF need > 2 * s.cap THEN need ELSE 2 * s.cap
             IN  [heap |-> Append(h, [j \in 1..newcap |->
                                        IF j <= s.len THEN h[s.array][j]
                                        ELSE IF j <= need THEN elems[j - s.len]
                                        ELSE Unset]),
                  slice |-> [array |-> Len(h) + 1, len |-> need, cap |-> newcap]]

Idle ==
    [pc |-> "idle", op |-> "", logger |-> 0, level |-> InfoLevel, ctx |-> "", msg |-> "",
     given |-> <<>>, keyVals |-> [array |-> 0, len |-> 0, cap |-> 0], traceID |-> ""]

\* the calls that have been entered and have not returned
InFlight == {g \in Goroutines : gor[g].pc # "idle"}

\* a goroutine enters a log call with the slice s as keyVals and asks the trace
\* function, if there is one, for the trace id
LogEnter(g, op, lvl, i, ctx, msg, s) ==
    /\ gor[g].pc = "idle"
    /\ LET l == loggers[i]
           traceID == IF l.getTraceIDFn # NilFn THEN CallTraceFn(l.getTraceIDFn, ctx)
                      ELSE ""
       IN  gor' = [gor EXCEPT ![g] =
                      [pc |-> IF traceID # "" THEN "append" ELSE "emit",
                       op |-> op, logger |-> i, level |-> lvl, ctx |-> ctx, msg |-> msg,
                       given |-> Elems(heap, s), keyVals |-> s, traceID |-> traceID]]
    /\ UNCHANGED <<loggers, origin, counts, sinks, now, calls, last, heap>>

\* keyVals = append(keyVals, "trace_id", traceID)
LogAppend(g) ==
    /\ gor[g].pc = "append"
    /\ LET r == GoAppend(heap, gor[g].keyVals, <<"trace_id", gor[g].traceID>>)
       IN  /\ heap' = r.heap
           /\ gor' = [gor EXCEPT ![g].pc = "emit", ![g].keyVals = r.slice]
    /\ UNCHANGED <<loggers, origin, counts, sinks, now, calls, last>>

\* l.zapLogger.Infow(msg, keyVals...): the engine reads the elements of keyVals
\* as they are now, and the call returns
LogEmit(g) ==
    /\ gor[g].pc = "emit"
    /\ Logw(gor[g].op, gor[g].logger, gor[g].level, gor[g].ctx, gor[g].msg,
            gor[g].given, Elems(heap, gor[g].keyVals))
    /\ gor' = [gor EXCEPT ![g] = Idle]
    /\ UNCHANGED heap

-----------------------------------------------------------------------------
(* With, and an Option called on an existing Logger *)

\* a variant whose new fields come before the parent's
ChildPrepends(l, keyVals) ==
    [zapLogger |-> [l.zapLogger EXCEPT !.fields = keyVals \o @],
     getTraceIDFn |-> l.getTraceIDFn,
     level |-> l.level,
     outputPaths |-> l.outputPaths]

\* the child Logger that With returns
Child(l, keyVals) ==
    [zapLogger |-> ZapWith(l.zapLogger, keyVals),
     getTraceIDFn |-> l.getTraceIDFn,
     level |-> l.level,
     outputPaths |-> l.outputPaths]

\* a variant that also appends the fields to the logger With is called on
WithInPlace(i, keyVals) ==
    /\ loggers' = Append([loggers EXCEPT ![i].zapLogger = ZapWith(@, keyVals)],
                         Child(loggers[i], keyVals))
    /\ origin' = Append(origin, [parent |-> i, service |-> origin[i].service,
                                 opts |-> <<>>, keyVals |-> keyVals,
                                 from |-> loggers[i]])
    /\ last' = [Blank EXCEPT !.op = "With", !.logger = i, !.keyVals = keyVals,
                             !.returned = Child(loggers[i], keyVals),
                             !.result = Len(loggers) + 1]
    /\ UNCHANGED <<counts, sinks, now, calls, heap, gor>>

With(i, keyVals) ==
    /\ loggers' = Append(loggers, Child(loggers[i], keyVals))
    /\ origin' = Append(origin, [parent |-> i, service |-> origin[i].service,
                                 opts |-> <<>>, keyVals |-> keyVals,
                                 from |-> loggers[i]])
    /\ last' = [Blank EXCEPT !.op = "With", !.logger = i, !.keyVals = keyVals,
                             !.returned = Child(loggers[i], keyVals),
                             !.result = Len(loggers) + 1]
    /\ UNCHANGED <<counts, sinks, now, calls, heap, gor>>

\* a variant in which the Loggers derived from i see the Option too
OptionReachesChildren(i, opt) ==
    /\ loggers' = [j \in DOMAIN loggers |->
                      IF j = i \/ origin[j].parent = i
                      THEN CallOption(opt, loggers[j]) ELSE loggers[j]]
    /\ last' = [Blank EXCEPT !.op = "Option", !.logger = i, !.opts = <<opt>>]
    /\ calls' = calls + 1
    /\ UNCHANGED <<origin, counts, sinks, now, heap, gor>>

\* opt(l) on a Logger that New or With has returned (Option is an exported type)
Option(i, opt) ==
    /\ loggers' = [loggers EXCEPT ![i] = CallOption(opt, loggers[i])]
    /\ last' = [Blank EXCEPT !.op = "Option", !.logger = i, !.opts = <<opt>>]
    /\ calls' = calls + 1
    /\ UNCHANGED <<origin, counts, sinks, now, heap, gor>>

\* time passes by one sampler tick
Advance ==
    /\ now' = now + SamplerTick
    /\ last' = [Blank EXCEPT !.op = "Advance"]
    /\ UNCHANGED <<loggers, origin, counts, sinks, calls, heap, gor>>

-----------------------------------------------------------------------------
(* Specification *)

RECURSIVE SeqsUpTo(_, _)
SeqsUpTo(S, n) ==
    IF n = 0 THEN {<<>>}
    ELSE LET shorter == SeqsUpTo(S, n - 1)
         IN  shorter \cup {Append(s, x) : s \in shorter, x \in S}

Init ==
    /\ loggers = <<>>
    /\ origin = <<>>
    /\ counts = <<>>
    /\ sinks = [p \in Sinks |-> 0]
    /\ now = 0
    /\ calls = 0
    /\ last = Blank
    /\ heap = <<>>
    /\ gor = [g \in Goroutines |-> Idle]

\* Every specification follows one root facade: New is called until it succeeds.

(* SpecNew: construction with every option sequence, and calls on the facade built *)

DoNew ==
    /\ loggers = <<>>
    /\ \E service \in Services, opts \in SeqsUpTo(Options, MaxOpts) : New(service, opts)

DoInfo ==
    /\ calls < MaxCalls
    /\ \E i \in DOMAIN loggers, ctx \in Ctxs, msg \in Msgs, kv \in KeyValLists :
          Info(i, ctx, msg, kv)

DoError ==
    /\ calls < MaxCalls
    /\ \E i \in DOMAIN loggers, ctx \in Ctxs, msg \in Msgs, kv \in KeyValLists :
          Error(i, ctx, msg, kv)

DoDebug ==
    /\ calls < MaxCalls
    /\ \E i \in DOMAIN loggers, ctx \in Ctxs, msg \in Msgs, kv \in KeyValLists :
          Debug(i, ctx, msg, kv)

NextNew == DoNew \/ DoInfo \/ DoError \/ DoDebug

SpecNew == Init /\ [][NextNew]_vars

(* Spec: a root facade, the children derived from it, Options called on them *)

\* option sequences of the root facade in Spec
RootOptions ==
    {<<>>, <<WithTraceID(FromCtxFn)>>, <<WithLevel(DebugLevel)>>,
     <<WithLevel(ErrorLevel), WithTraceID(FromCtxFn)>>}

\* Options called on a Logger after construction
LateOptions == {WithTraceID(NilFn), WithLevel(ErrorLevel), WithOutputPaths(<<>>)}

DoNewRoot ==
    /\ loggers = <<>>
    /\ \E service \in Services, opts \in RootOptions : New(service, opts)

DoWith ==
    /\ Len(loggers) < MaxLoggers
    /\ \E i \in DOMAIN loggers, kv \in WithLists : With(i, kv)

\* an Option called on the root facade after New has returned it
DoOption ==
    /\ calls < MaxCalls
    /\ loggers # <<>>
    /\ \E opt \in LateOptions : Option(1, opt)

\* log calls in Spec carry one pair of caller fields
CallLists == {<<"k", "v">>}

CallInfo ==
    /\ calls < MaxCalls
    /\ \E i \in DOMAIN loggers, ctx \in Ctxs, msg \in Msgs, kv \in CallLists :
          Info(i, ctx, msg, kv)

CallError ==
    /\ calls < MaxCalls
    /\ \E i \in DOMAIN loggers, ctx \in Ctxs, msg \in Msgs, kv \in CallLists :
          Error(i, ctx, msg, kv)

CallDebug ==
    /\ calls < MaxCalls
    /\ \E i \in DOMAIN loggers, ctx \in Ctxs, msg \in Msgs, kv \in CallLists :
          Debug(i, ctx, msg, kv)

Next == DoNewRoot \/ CallInfo \/ CallError \/ CallDebug \/ DoWith \/ DoOption

Spec == Init /\ [][Next]_vars

(* SpecBurst: many calls of one level on a facade and its child, within and across ticks *)

BurstNew ==
    /\ loggers = <<>>
    /\ \E service \in Services, opts \in {<<>>} \cup {<<WithLevel(x)>> : x \in Levels} :
          New(service, opts)

BurstWith ==
    /\ Len(loggers) = 1
    /\ calls = 0
    /\ With(1, <<"component", "x">>)

LogOps == {"Info", "Error", "Debug"}

\* a burst repeats the level of the call before it
BurstInfo ==
    /\ calls < MaxBurst
    /\ last.op \in LogOps => last.op = "Info"
    /\ \E i \in DOMAIN loggers, ctx \in Ctxs, msg \in BurstMsgs : Info(i, ctx, msg, <<>>)

BurstError ==
    /\ calls < MaxBurst
    /\ last.op \in LogOps => last.op = "Error"
    /\ \E i \in DOMAIN loggers, ctx \in Ctxs, msg \in BurstMsgs : Error(i, ctx, msg, <<>>)

BurstDebug ==
    /\ calls < MaxBurst
    /\ last.op \in LogOps => last.op = "Debug"
    /\ \E i \in DOMAIN loggers, ctx \in Ctxs, msg \in BurstMsgs : Debug(i, ctx, msg, <<>>)

\* a tick ends once the sampler has begun to drop entries
BurstAdvance ==
    /\ now < MaxTime
    /\ \E c \in DOMAIN counts, k \in DOMAIN NewCounters : counts[c][k].n > SamplerFirst
    /\ Advance

NextBurst == BurstNew \/ BurstWith \/ BurstInfo \/ BurstError \/ BurstDebug \/ BurstAdvance

SpecBurst == Init /\ [][NextBurst]_vars

(* SpecSlice: goroutines that give log calls one slice the caller owns *)

\* the caller has made its slice, with or without spare capacity
InitSlice ==
    /\ loggers = <<>>
    /\ origin = <<>>
    /\ counts = <<>>
    /\ sinks = [p \in Sinks |-> 0]
    /\ now = 0
    /\ calls = 0
    /\ last = Blank
    /\ \E cap \in SliceCaps : heap = <<CallerArray(cap)>>
    /\ gor = [g \in Goroutines |-> Idle]

\* option sequences of the root facade in SpecSlice
SliceOptions ==
    {<<>>, <<WithTraceID(FromCtxFn)>>, <<WithLevel(ErrorLevel), WithTraceID(FromCtxFn)>>}

SliceNew ==
    /\ loggers = <<>>
    /\ \E service \in Services, opts \in SliceOptions : New(service, opts)

SliceWith ==
    /\ Len(loggers) = 1
    /\ calls = 0
    /\ InFlight = {}
    /\ With(1, <<"component", "x">>)

SliceInfo ==
    /\ calls + Cardinality(InFlight) < MaxSliceCalls
    /\ \E g \in Goroutines, i \in DOMAIN loggers, ctx \in SliceCtxs, msg \in Msgs :
          LogEnter(g, "Info", InfoLevel, i, ctx, msg, CallerSlice)

SliceError ==
    /\ calls + Cardinality(InFlight) < MaxSliceCalls
    /\ \E g \in Goroutines, i \in DOMAIN loggers, ctx \in SliceCtxs, msg \in Msgs :
          LogEnter(g, "Error", ErrorLevel, i, ctx, msg, CallerSlice)

SliceDebug ==
    /\ calls + Cardinality(InFlight) < MaxSliceCalls
    /\ \E g \in Goroutines, i \in DOMAIN loggers, ctx \in SliceCtxs, msg \in Msgs :
          LogEnter(g, "Debug", DebugLevel, i, ctx, msg, CallerSlice)

SliceAppend == \E g \in Goroutines : LogAppend(g)

SliceEmit == \E g \in Goroutines : LogEmit(g)

NextSlice ==
    SliceNew \/ SliceWith \/ SliceInfo \/ SliceError \/ SliceDebug
        \/ SliceAppend \/ SliceEmit

SpecSlice == InitSlice /\ [][NextSlice]_vars

-----------------------------------------------------------------------------
(* Claims about construction, checked under SpecNew *)

\* the positions of the options of one kind in an option sequence
Setting(opts, kind) == {i \in DOMAIN opts : opts[i].opt = kind}

Max(S) == CHOOSE x \in S : \A y \in S : y <= x

\* the value the last option of a kind carries, or the default when none does
LastOr(opts, kind, field, default) ==
    IF Setting(opts, kind) = {} THEN default
    ELSE opts[Max(Setting(opts, kind))][field]

\* C1: each setting New resolves is the value of the last option that sets it,
\* or the default when no option does, and Build is given exactly these values
\* (which a facade that is returned then holds, along with its engine).
C1_LastOptionWins ==
    last.op = "New" =>
        LET level == LastOr(last.opts, "WithLevel", "level", InfoLevel)
            paths == LastOr(last.opts, "WithOutputPaths", "outputPaths", <<"stdout">>)
            fn == LastOr(last.opts, "WithTraceID", "getTraceIDFn", defaultTraceIDFn)
        IN  /\ last.config.Level = level
            /\ last.config.OutputPaths = paths
            /\ last.returned # Nil =>
                  /\ last.returned.level = level
                  /\ last.returned.outputPaths = paths
                  /\ last.returned.getTraceIDFn = fn
                  /\ last.returned.zapLogger.level = level
                  /\ last.returned.zapLogger.outputPaths = paths
                  /\ loggers[last.result] = last.returned

\* New has returned a facade for two options of one kind with different values
C1_Witness ==
    /\ last.op = "New"
    /\ last.returned # Nil
    /\ Len(last.opts) = 2
    /\ last.opts[1].opt = last.opts[2].opt
    /\ last.opts[1] # last.opts[2]

\* C6: New returns a facade and no error, or no facade and an error; the error
\* is returned exactly when an output path of the resolved config cannot be opened.
C6_FacadeXorError ==
    last.op = "New" =>
        /\ (last.returned = Nil) <=> (last.err # NoErr)
        /\ (last.err # NoErr) <=>
              \E i \in DOMAIN last.config.OutputPaths :
                  ~CanOpen(last.config.OutputPaths[i])

\* New has failed on an output path that cannot be opened
C6_Witness ==
    /\ last.op = "New"
    /\ last.returned = Nil
    /\ last.err # NoErr
    /\ loggers = <<>>

\* C7: after a successful New the engine's output-path list is non-empty, and
\* is <<"stdout">> when no option names an output path.
C7_OutputPathsNonEmpty ==
    (last.op = "New" /\ last.returned # Nil) =>
        /\ last.returned.zapLogger.outputPaths # <<>>
        /\ Setting(last.opts, "WithOutputPaths") = {}
              => last.returned.zapLogger.outputPaths = <<"stdout">>

-----------------------------------------------------------------------------
(* Claims about log calls, children and late Options, checked under Spec *)

\* the trace_id pair a log call is to add for a trace function and a context
TracePair(fn, ctx) ==
    IF fn # NilFn /\ CallTraceFn(fn, ctx) # ""
    THEN <<"trace_id", CallTraceFn(fn, ctx)>>
    ELSE <<>>

\* C2: a log call hands the engine the caller's fields followed by the one
\* pair ("trace_id", s) when the facade's trace function returns a non-empty s
\* for the context, and exactly the caller's fields when it returns "" or is nil.
C2_TraceIdAppendedLast ==
    last.op \in LogOps =>
        LET fn == loggers[last.logger].getTraceIDFn
            s == CallTraceFn(fn, last.ctx)
        IN  IF fn # NilFn /\ s # ""
            THEN /\ Len(last.handed) = Len(last.keyVals) + 2
                 /\ SubSeq(last.handed, 1, Len(last.keyVals)) = last.keyVals
                 /\ last.handed[Len(last.handed) - 1] = "trace_id"
                 /\ last.handed[Len(last.handed)] = s
            ELSE last.handed = last.keyVals

\* a call with caller fields on a facade whose trace function returned a trace id
C2_Witness ==
    /\ last.op \in LogOps
    /\ last.keyVals = <<"k", "v">>
    /\ last.handed = <<"k", "v", "trace_id", "abc123">>

RECURSIVE ChainFields(_)
\* the service field of the root, then the fields given to each With down to i
ChainFields(i) ==
    IF origin[i].parent = 0 THEN <<"service", origin[i].service>>
    ELSE ChainFields(origin[i].parent) \o origin[i].keyVals

\* C4: an entry written by a log call on a facade carries, in this order, the
\* root's service field, the fields given to each With on the way down to the
\* facade, the call's own fields, and the trace_id pair if one is injected.
C4_FieldOrder ==
    (last.op \in LogOps /\ last.entry # Nil) =>
        last.entry.fields =
            ChainFields(last.logger) \o last.keyVals
                \o TracePair(loggers[last.logger].getTraceIDFn, last.ctx)

\* an entry written for a call with fields and a trace id on a child of a child
C4_Witness ==
    /\ last.op \in LogOps
    /\ last.entry # Nil
    /\ origin[last.logger].parent # 0
    /\ origin[origin[last.logger].parent].parent # 0
    /\ origin[last.logger].keyVals # origin[origin[last.logger].parent].keyVals
    /\ last.keyVals # <<>>
    /\ Len(last.handed) > Len(last.keyVals)

\* C5: With and the log calls leave every existing facade as it was, and every
\* facade's persistent fields are those of its own chain of With calls only, so
\* an entry written by a later log call starts with exactly these fields.
C5_WithLeavesFacade ==
    /\ [][(last'.op = "With" \/ last'.op \in LogOps) =>
            \A i \in DOMAIN loggers : loggers'[i] = loggers[i]]_vars
    /\ [](\A i \in DOMAIN loggers : loggers[i].zapLogger.fields = ChainFields(i))
    /\ []((last.op \in LogOps /\ last.entry # Nil) =>
            /\ Len(last.entry.fields) = Len(ChainFields(last.logger)) + Len(last.handed)
            /\ SubSeq(last.entry.fields, 1, Len(ChainFields(last.logger)))
                 = ChainFields(last.logger))

\* an entry written by a call on the root after two children with different
\* fields were derived from it
C5_Witness ==
    /\ Len(loggers) = 3
    /\ origin[2].parent = 1
    /\ origin[3].parent = 1
    /\ origin[2].keyVals # origin[3].keyVals
    /\ last.op \in LogOps
    /\ last.logger = 1
    /\ last.entry # Nil
    /\ calls = 2

\* C9: a child holds the trace function, level and output paths (and the
\* engine's level and paths) its parent had when With was called, whatever is
\* done to the parent later, and its log calls inject the trace id as the
\* parent did at that moment.  (Spec calls late Options on the root only.)
C9_ChildKeepsCopiedConfig ==
    \A i \in DOMAIN loggers :
        origin[i].parent # 0 =>
            /\ loggers[i].getTraceIDFn = origin[i].from.getTraceIDFn
            /\ loggers[i].level = origin[i].from.level
            /\ loggers[i].outputPaths = origin[i].from.outputPaths
            /\ loggers[i].zapLogger.level = origin[i].from.zapLogger.level
            /\ loggers[i].zapLogger.outputPaths = origin[i].from.zapLogger.outputPaths
            /\ (last.op \in LogOps /\ last.logger = i) =>
                  last.handed =
                      last.keyVals \o TracePair(origin[i].from.getTraceIDFn, last.ctx)

\* a call on a child injects a trace id after the root's trace function, level
\* or paths were changed by an Option called on the root
C9_Witness ==
    /\ last.op \in LogOps
    /\ origin[last.logger].parent = 1
    /\ loggers[1] # origin[last.logger].from
    /\ loggers[1].getTraceIDFn = NilFn
    /\ Len(last.handed) = Len(last.keyVals) + 2

-----------------------------------------------------------------------------
(* Claims about calls below the minimum level, checked under SpecNew *)

\* a step that is a log call
IsLogStep == last'.op \in LogOps /\ calls' = calls + 1

\* C10 as claimed: a call below the facade's minimum writes nothing, changes
\* no facade or engine state, and does not invoke the trace function.
C10_BelowMinimumIsNoOp ==
    [][(IsLogStep /\ last'.level < loggers[last'.logger].level) =>
          /\ last'.entry = Nil
          /\ last'.paths = <<>>
          /\ UNCHANGED <<loggers, counts, sinks>>
          /\ last'.traced = <<>>]_vars

\* C10 as amended: a call below the facade's minimum writes nothing and changes
\* no facade or engine state; the trace function, unless nil, is still invoked
\* once, with the call's context.
C10_BelowMinimumWritesNothing ==
    [][(IsLogStep /\ last'.level < loggers[last'.logger].level) =>
          /\ last'.entry = Nil
          /\ last'.paths = <<>>
          /\ UNCHANGED <<loggers, counts, sinks>>
          /\ last'.traced = IF loggers[last'.logger].getTraceIDFn # NilFn
                            THEN <<last'.ctx>> ELSE <<>>]_vars

\* a Debug or Info call below the minimum for which the caller's trace
\* function was invoked
C10_Witness ==
    /\ last.op \in LogOps
    /\ last.level < loggers[last.logger].level
    /\ loggers[last.logger].getTraceIDFn = FromCtxFn
    /\ last.traced = <<"abc123">>
    /\ last.entry = Nil

-----------------------------------------------------------------------------
(* Claims about which calls are written, checked under SpecBurst *)

\* C3: a facade constructed with minimum level X, and every child of it,
\* writes no call below X and writes every call at or above X.
C3_WritesExactlyAtOrAbove ==
    last.op \in LogOps =>
        /\ last.level < loggers[1].level => (last.entry = Nil /\ last.paths = <<>>)
        /\ last.level >= loggers[1].level =>
              (last.entry # Nil /\ last.paths = loggers[1].outputPaths)

\* C8: New without options yields a facade of level Info (Debug calls write
\* nothing, Info and Error calls write a record) whose only output path is
\* "stdout" and which adds no trace_id for any context.
C8_DefaultsAlwaysWritten ==
    /\ (last.op = "New" /\ last.opts = <<>>) =>
          /\ last.err = NoErr
          /\ last.returned # Nil
          /\ last.returned.level = InfoLevel
          /\ last.returned.zapLogger.level = InfoLevel
          /\ last.returned.outputPaths = <<"stdout">>
          /\ last.returned.zapLogger.outputPaths = <<"stdout">>
    /\ (last.op \in LogOps /\ last.logger = 1 /\ origin[1].opts = <<>>) =>
          /\ last.handed = last.keyVals
          /\ last.op = "Debug" => (last.entry = Nil /\ last.paths = <<>>)
          /\ last.op \in {"Info", "Error"} =>
                (last.entry # Nil /\ last.paths = <<"stdout">>)

-----------------------------------------------------------------------------
(* Claims about calls given one caller-owned slice, checked under SpecSlice *)

\* the caller's slice has room for the trace_id pair
SpareCapacity == Len(heap[1]) >= Len(CallerFields) + 2

\* the caller's backing array holds what the caller stored in it, and nothing else
CallerStorageUntouched == heap[1] = CallerArray(Len(heap[1]))

\* a call that has appended its trace_id pair stored it in an array that no
\* other call in flight holds a slice of
NoSharedAppendStorage ==
    \A g \in InFlight, h \in InFlight :
        (g # h /\ gor[g].keyVals.len > Len(gor[g].given))
            => gor[g].keyVals.array # gor[h].keyVals.array

\* the engine was handed, and the record written carries, the fields the call
\* was given followed by the trace id of the call's own context
OwnFieldsAndTraceId ==
    last.op \in LogOps =>
        LET own == last.keyVals
                     \o TracePair(loggers[last.logger].getTraceIDFn, last.ctx)
        IN  /\ last.handed = own
            /\ last.entry # Nil => last.entry.fields = ChainFields(last.logger) \o own

\* C11: when log calls are given one caller-owned slice with spare capacity,
\* appending trace_id stores nothing into the caller's backing array or into
\* an array another call uses, and every call hands the engine exactly its own
\* fields and its own trace id.
C11_NoSliceInterference ==
    SpareCapacity =>
        /\ CallerStorageUntouched
        /\ NoSharedAppendStorage
        /\ OwnFieldsAndTraceId

====
